---- MODULE Spec2Model ----
(***************************************************************************)
(* A model of amx-rs: the per-thread activation guard (nativectx.rs), the  *)
(* instruction emission of the hardware backend (nativeops.rs), the        *)
(* operand words of the load/store (load_store.rs, lib.rs), outer-product  *)
(* (lib.rs) and lookup-table (genlut.rs) instructions, and the effect of   *)
(* the load/store instructions on the register files.                      *)
(***************************************************************************)
EXTENDS Integers, Sequences, FiniteSets, TLC

(***************************************************************************)
(* Bounds                                                                  *)
(***************************************************************************)

\* Number of threads calling AmxCtx::new / drop.
NumThreads == 2

\* Longest sequence of set/clr instructions a thread emits.
MaxEmit == 5

\* How many row indices past the legal range of a register file are tried.
MaxOver == 1

\* How many load/store calls a run of the register-file model makes.
MaxCalls == 2

Threads == 1..NumThreads

(***************************************************************************)
(* 64-bit words (u64).  A word is the function from bit position to bit;   *)
(* the operators are Rust's `<<`, `|` and `&` on u64.                      *)
(***************************************************************************)

BitPos == 0..63

U64 == [BitPos -> {0, 1}]

\* `n as u64` for a small non-negative n (n < 2^31).
ToU64(n) == [i \in BitPos |-> IF i <= 30 THEN (n \div (2 ^ i)) % 2 ELSE 0]

\* `w << k` for k < 64: the bits shifted past bit 63 are lost.
Shl(w, k) == [i \in BitPos |-> IF i >= k THEN w[i - k] ELSE 0]

\* `a | b`
BitOr(a, b) == [i \in BitPos |-> IF a[i] = 1 \/ b[i] = 1 THEN 1 ELSE 0]

\* `a & b`
BitAnd(a, b) == [i \in BitPos |-> IF a[i] = 1 /\ b[i] = 1 THEN 1 ELSE 0]

\* The word whose set bits are exactly those of S.
WordOfBits(S) == [i \in BitPos |-> IF i \in S THEN 1 ELSE 0]

\* The number held in the `width` bits of w that start at bit `lo`.
RECURSIVE Field(_, _, _)
Field(w, lo, width) ==
    IF width = 0 THEN 0
    ELSE w[lo] + 2 * Field(w, lo + 1, width - 1)

(***************************************************************************)
(* nativeops.rs: instruction emission                                      *)
(***************************************************************************)

\* The base of every AMX instruction word, `0x00201000`.
AmxBase == 2101248

\* A variant of op_imm that shifts the opcode by 4.
op_imm_shl4(op, operand) == AmxBase + (op * 16) + operand

\* op_imm::<OP, OPERAND>: ".word 0x00201000 + ({op} << 5) + {operand}"
op_imm(op, operand) == AmxBase + (op * 32) + operand

\* set(): op_imm::<17, 0>
set == op_imm(17, 0)

\* clr(): op_imm::<17, 1>
clr == op_imm(17, 1)

(***************************************************************************)
(* load_store.rs, lib.rs: the operand word of the load/store instructions  *)
(***************************************************************************)

\* MemSize::_64 = 0
MemSize_64 == 0

\* MemSize::_128 = 1
MemSize_128 == 1

\* The mask `0x00ff_ffff_ffff_ffff`: bits 0..55.
PtrMask == WordOfBits(0..55)

\* A variant of MemArgs::encode that puts the size at bit 61.
MemArgsEncodeSize61(reg_offset, size) ==
    BitOr(Shl(ToU64(reg_offset), 56), Shl(ToU64(size), 61))

\* load_store.rs, MemArgs::encode: `(reg_offset << 56) | ((size as u64) << 62)`.
\* The debug_assert!(reg_offset < 64) cannot fail: every caller asserts a
\* tighter or equal bound on the index first.
MemArgsEncode(reg_offset, size) ==
    BitOr(Shl(ToU64(reg_offset), 56), Shl(ToU64(size), 62))

\* lib.rs, MemArgs::encode:
\* `(ptr as u64) & 0x00ff_ffff_ffff_ffff | (reg_offset << 56) | ((size as u64) << 62)`
LibMemArgsEncode(ptr, reg_offset, size) ==
    BitOr(BitOr(BitAnd(ptr, PtrMask), Shl(ToU64(reg_offset), 56)),
          Shl(ToU64(size), 62))

\* A variant of the hardware backend that does not mask the pointer.
NativeOperandUnmasked(x, ptr) == BitOr(x, ptr)

\* nativeops.rs, impl crate::ops::AmxOps for AmxOps, ldx..stzi:
\* the operand handed to the instruction is `x | (ptr as u64 & 0x00ff_ffff_ffff_ffff)`.
NativeOperand(x, ptr) == BitOr(x, BitAnd(ptr, PtrMask))

\* The OP of op_in::<OP> for each instruction that takes an operand.
Opcode(name) ==
    CASE name = "ldx" -> 0
      [] name = "ldy" -> 1
      [] name = "stx" -> 2
      [] name = "sty" -> 3
      [] name = "ldz" -> 4
      [] name = "stz" -> 5
      [] name = "ldzi" -> 6
      [] name = "stzi" -> 7
      [] name = "extrx" -> 8
      [] name = "extry" -> 9
      [] name = "fma64" -> 10
      [] name = "fms64" -> 11
      [] name = "fma32" -> 12
      [] name = "fms32" -> 13
      [] name = "mac16" -> 14
      [] name = "fma16" -> 15
      [] name = "fms16" -> 16
      [] name = "vecint" -> 18
      [] name = "vecfp" -> 19
      [] name = "matint" -> 20
      [] name = "matfp" -> 21
      [] name = "genlut" -> 22

\* The register files that have rows, and the bound each LoadStore impl
\* asserts on the row index: `assert!(index < 8)` for XRow and YRow,
\* `assert!(index < 64)` for ZRow.
Files == {"X", "Y", "Z"}

\* A variant that bounds every file by the 64 rows of z.
RowLimitAll64(file) == 64

RowLimit(file) == IF file = "Z" THEN 64 ELSE 8

\* The raw operation each LoadStore impl calls to load resp. store.
\* A variant in which XRow loads through the store instruction stx.
LoadNameXStore(file) == CASE file = "X" -> "stx" [] file = "Y" -> "ldy" [] file = "Z" -> "ldz"

LoadName(file) == CASE file = "X" -> "ldx" [] file = "Y" -> "ldy" [] file = "Z" -> "ldz"

StoreName(file) == CASE file = "X" -> "stx" [] file = "Y" -> "sty" [] file = "Z" -> "stz"

\* The row indices tried: the ones legal for Z (the X and Y methods of
\* lib.rs accept them too, as `index % 8`) and the first MaxOver illegal ones.
RowSamples == 0..(63 + MaxOver)

\* The pointers tried.  Top byte: clear, the lowest and the highest bit of
\* reg_offset (bits 56 and 61), the size bit (62), bit 63, and all set.
\* Low 56 bits: all set, and a 128-byte aligned address.
TopByteSamples == {0, 1, 32, 64, 128, 255}

LowBitsSamples == {0..55, {7, 12, 21, 34, 46}}

PtrSamples ==
    {BitOr(Shl(ToU64(top), 56), WordOfBits(low)) :
        top \in TopByteSamples, low \in LowBitsSamples}

NoCall == [api |-> "none", method |-> "none", file |-> "none", index |-> 0,
           bytes |-> 0, ptr |-> ToU64(0)]

NoRawOp == [name |-> "none", x |-> ToU64(0), ptr |-> ToU64(0)]

NoOperand == [op |-> -1, operand |-> ToU64(0)]

(***************************************************************************)
(* nativeops.rs: the instruction word op_in assembles                      *)
(***************************************************************************)

\* The registers `in(reg)` can name: x0 .. x31.
XRegs == 0..31

\* The OP of every op_in::<OP> in nativeops.rs (17 is emitted by op_imm).
InOps == (0..22) \ {17}

\* The assembler reads the text `0` followed by the register name `x<r>`,
\* with r in decimal, as a hexadecimal literal: each decimal digit of r
\* becomes a hexadecimal digit.
RECURSIVE RegNameAsHex(_)
RegNameAsHex(r) == IF r < 10 THEN r ELSE 16 * RegNameAsHex(r \div 10) + (r % 10)

\* A variant of the instruction word that shifts the literal by 3.
OpInWordShift3(op, r) ==
    LET h == RegNameAsHex(r) IN
    AmxBase + (op * 32) + (h % 16) + ((h \div 8) * 10)

\* `.word 0x00201000 + ({op} << 5) + (0{operand} & 0xf) + (0{operand} >> 4) * 10`
\* for the operand held in register x<r>.
OpInWord(op, r) ==
    LET h == RegNameAsHex(r) IN
    AmxBase + (op * 32) + (h % 16) + ((h \div 16) * 10)

NoInsn == [op |-> -1, reg |-> -1, word |-> 0]

(***************************************************************************)
(* The register files and the memory the load/store instructions act on.   *)
(* What the instructions do is taken from the doc comments of lib.rs and    *)
(* from the expected values computed by tests/load_store.rs.               *)
(***************************************************************************)

\* The number of 64-byte rows of each register file:
\* x: [u8; 512], y: [u8; 512], z: [u8; 4096].
NumRows(file) == IF file = "Z" THEN 64 ELSE 8

\* AmxSt::default(): every register byte is zero.
ZeroRegs == [f \in Files |-> [i \in 0..(NumRows(f) - 1) |-> [k \in 0..63 |-> 0]]]

\* Register files left behind by earlier work: every row differs from every
\* other row of its file.
UsedRegs ==
    [f \in Files |-> [i \in 0..(NumRows(f) - 1) |->
        [k \in 0..63 |-> (200 + (3 * i) + (5 * k) + (IF f = "Y" THEN 1 ELSE 0)) % 256]]]

\* A memory address is the low 56 bits of a word, kept as the two 28-bit
\* halves <<high, low>>.
Addr(w) == <<Field(w, 28, 28), Field(w, 0, 28)>>

\* The address k bytes after a, wrapping at 2^56.
AddrAdd(a, k) ==
    LET lo == a[2] + k IN
    <<(a[1] + (lo \div (2 ^ 28))) % (2 ^ 28), lo % (2 ^ 28)>>

\* The word whose low 56 bits are the address a.
AddrWord(a) == BitOr(Shl(ToU64(a[1]), 28), ToU64(a[2]))

\* `ptr.offset(n)` for a pointer into an allocated buffer: the address moves
\* by n bytes, the top byte stays.
PtrOffset(ptr, n) ==
    BitOr(BitAnd(ptr, WordOfBits(56..63)), AddrWord(AddrAdd(Addr(ptr), n)))

\* The byte a memory cell holds before anything is stored to it: within any
\* 256 bytes no two cells hold the same value.
MemInit(a) == (((a[2] % 256) * 37) + (a[1] % 256) + 11) % 256

\* Memory is the list of the stores made so far, oldest first, each with
\* its first address and its bytes.  A cell holds what the latest store that
\* covers it wrote, and MemInit before any did.
Covers(e, a) ==
    LET d == (a[2] - e.base[2] + (2 ^ 28)) % (2 ^ 28) IN
    d < e.len /\ a = AddrAdd(e.base, d)

MemAt(m, a) ==
    \* the stores that cover a
    LET hits == {i \in 1..Len(m) : Covers(m[i], a)} IN
    IF hits = {}
    THEN MemInit(a)
    ELSE LET i == CHOOSE i \in hits : \A j \in hits : j <= i
         IN  m[i].bytes[(a[2] - m[i].base[2] + (2 ^ 28)) % (2 ^ 28)]

\* The addresses memory m was stored to.
Stored(m) == UNION {{AddrAdd(m[i].base, k) : k \in 0..(m[i].len - 1)} : i \in 1..Len(m)}

\* The stores of memory m that wrote some of the n bytes at address base, in
\* the order they were made: the only ones those bytes depend on.
Near(m, base, n) ==
    SelectSeq(m, LAMBDA e : Covers(e, base) \/ Covers([base |-> base, len |-> n], e.base))

\* The n bytes of memory m that start at address base.
MemBytes(m, base, n) ==
    LET near == Near(m, base, n) IN
    [k \in 0..(n - 1) |-> MemAt(near, AddrAdd(base, k))]

\* Memory m after the n bytes `bytes` are written at address base.
MemWrite(m, base, bytes, n) == Append(m, [base |-> base, len |-> n, bytes |-> bytes])

\* The fields of an operand word as the instruction reads them: the row in
\* bits [56,62), the 128-byte flag in bit 62, the address in bits [0,56).
HwRow(operand) == Field(operand, 56, 6)

HwPair(operand) == operand[62] = 1

\* Whether a is a multiple of 128.
Aligned128(a) == a[2] % 128 = 0

\* The register file each load/store instruction addresses.
FileOf(name) ==
    CASE name \in {"ldx", "stx"} -> "X"
      [] name \in {"ldy", "sty"} -> "Y"
      [] name \in {"ldz", "stz", "ldzi", "stzi"} -> "Z"

\* ldx, ldy, ldz: 64 bytes go to row `index % 8` of x or y, or row `index` of
\* z; 128 bytes go to that row and the next one, wrapping to row 0 after the
\* last (tests/load_store.rs: expected[(reg_offset * 8 + i) % reg_size] = pat1[i]).
LoadRows(r, m, file, operand) ==
    LET n == NumRows(file)
        row == HwRow(operand) % n
        nxt == (row + 1) % n
        b == MemBytes(m, Addr(operand), IF HwPair(operand) THEN 128 ELSE 64)
    IN  [r EXCEPT ![file] =
            [i \in 0..(n - 1) |->
                IF i = row THEN [k \in 0..63 |-> b[k]]
                ELSE IF HwPair(operand) /\ i = nxt THEN [k \in 0..63 |-> b[64 + k]]
                ELSE r[file][i]]]

\* stx, sty, stz: the same rows, written to memory.
StoreRows(m, r, file, operand) ==
    LET n == NumRows(file)
        row == HwRow(operand) % n
        nxt == (row + 1) % n
        len == IF HwPair(operand) THEN 128 ELSE 64
    IN  MemWrite(m, Addr(operand),
                 IF len = 64 THEN r[file][row]
                 ELSE [k \in 0..127 |->
                          IF k < 64 THEN r[file][row][k] ELSE r[file][nxt][k - 64]],
                 len)

\* tests/load_store.rs, interleaved branch, with z seen as [u64; 512]:
\*   reg_start = (reg_offset % 2) * 4 + (reg_offset / 2) * 16
ZiRegStart(reg_offset) == ((reg_offset % 2) * 4) + ((reg_offset \div 2) * 16)

\* The byte of z, counted from the start of z, that receives byte s of the
\* 64 source bytes.  Source lanes i and i + 1 (i even) are 8 bytes each;
\*   expected[(reg_start + i / 2) % reg_size]     = low1 | (low2 << 32)
\*   expected[(reg_start + 8 + i / 2) % reg_size] = high1 | (high2 << 32)
ZiTarget(reg_offset, s) ==
    LET lane == s \div 8
        i == 2 * (lane \div 2)
        half == (s % 8) \div 4
        t == (ZiRegStart(reg_offset) + (8 * half) + (i \div 2)) % 512
    IN  (8 * t) + (4 * (lane % 2)) + (s % 4)

\* ldzi: the 64 bytes at the address go to their places in z.
LoadZI(r, m, operand) ==
    LET q == HwRow(operand)
        b == MemBytes(m, Addr(operand), 64)
        \* <<target byte of z, source byte>> for the 64 source bytes
        moves == {<<ZiTarget(q, s), s>> : s \in 0..63}
        rows == {p[1] \div 64 : p \in moves}
    IN  [r EXCEPT !["Z"] =
            [i \in 0..63 |->
                IF i \in rows
                THEN LET into == {p \in moves : p[1] \div 64 = i} IN
                     [k \in 0..63 |->
                        LET from == {p \in into : p[1] = (64 * i) + k} IN
                        IF from = {} THEN r["Z"][i][k]
                        ELSE b[(CHOOSE p \in from : TRUE)[2]]]
                ELSE r["Z"][i]]]

\* stzi: the bytes ldzi would write are read back in source order
\* (tests/load_store.rs, copy_and_check_memory: an interleaved load followed
\* by the interleaved store of the same row reproduces the source).
StoreZI(m, r, operand) ==
    LET q == HwRow(operand) IN
    MemWrite(m, Addr(operand),
             [s \in 0..63 |->
                 LET z == ZiTarget(q, s) IN r["Z"][z \div 64][z % 64]],
             64)

VARIABLES
    CTX_ACTIVE,  \* thread_local Cell<bool>: the activation flag of each thread
    live,        \* per thread, the number of AmxCtx values constructed and not yet dropped
    emitted,     \* per thread, the instruction words emitted so far, oldest first
    result,      \* per thread, what the thread's latest AmxCtx::new returned
    arg,         \* the register row and pointer the load/store methods are called with
    lsCall,      \* the latest load/store call: its API, method, row index and pointer
    rawOp,       \* the raw operation that call invoked on AmxOps (name, operand word x, ptr)
    hwOperand,   \* the opcode and operand value the hardware backend gave to op_in
    panicked,    \* whether the latest load/store call failed an assertion
    issued,      \* the instructions the latest call gave the coprocessor, oldest first
    callsLeft,   \* how many more load/store calls the run makes
    regs,        \* the register files x, y, z: per file and row, 64 bytes
    mem,         \* the stores made to memory so far, oldest first
    havoc,       \* the register files (and "mem", and the even rows "Z0" and odd
                 \* rows "Z1" of z) whose contents are no longer known
    insn         \* the instruction word assembled for an op_in (its OP, register, word)

ctxVars == <<CTX_ACTIVE, live, emitted, result>>

hwVars == <<regs, mem, havoc>>

memVars == <<arg, lsCall, rawOp, hwOperand, panicked, issued, callsLeft,
             regs, mem, havoc, insn>>

vars == <<CTX_ACTIVE, live, emitted, result, arg, lsCall, rawOp, hwOperand, panicked,
          issued, callsLeft, regs, mem, havoc, insn>>

\* The variants of Result<AmxCtx, NewAmxCtxError>, and "none" before any call.
NewResults == {"none", "Ok", "AlreadyActive", "Unsupported"}

TypeOK ==
    /\ CTX_ACTIVE \in [Threads -> BOOLEAN]
    /\ live \in [Threads -> 0..MaxEmit]
    /\ emitted \in [Threads -> Seq({set, clr})]
    /\ result \in [Threads -> NewResults]
    /\ lsCall.ptr \in U64
    /\ rawOp.x \in U64
    /\ hwOperand.operand \in U64
    /\ panicked \in BOOLEAN
    /\ \A i \in 1..Len(issued) : issued[i].operand \in U64
    /\ callsLeft \in Nat
    /\ \A f \in Files : \A i \in 0..(NumRows(f) - 1) : \A k \in 0..63 :
           regs[f][i][k] \in 0..255
    /\ \A i \in 1..Len(mem) : \A k \in 0..(mem[i].len - 1) : mem[i].bytes[k] \in 0..255
    /\ havoc \subseteq Files \cup {"mem", "Z0", "Z1"}
    /\ insn.word \in Nat

\* The state of a freshly started process: CTX_ACTIVE is Cell::new(false) on
\* every thread, no context exists, nothing was emitted.
Init ==
    /\ CTX_ACTIVE = [t \in Threads |-> FALSE]
    /\ live = [t \in Threads |-> 0]
    /\ emitted = [t \in Threads |-> <<>>]
    /\ result = [t \in Threads |-> "none"]
    /\ arg = [file |-> "X", index |-> 0, ptr |-> ToU64(0), dst |-> ToU64(0)]
    /\ lsCall = NoCall
    /\ rawOp = NoRawOp
    /\ hwOperand = NoOperand
    /\ panicked = FALSE
    /\ issued = <<>>
    /\ callsLeft = 0
    /\ regs = ZeroRegs
    /\ mem = <<>>
    /\ havoc = {}
    /\ insn = NoInsn

\* The hardware's enable state on thread t: AMX is enabled by `set` and
\* disabled by `clr`, and starts disabled.
AmxEnabled(t) ==
    /\ emitted[t] # <<>>
    /\ emitted[t][Len(emitted[t])] = set

\* How many times word w was emitted on thread t.
NumEmitted(t, w) == Cardinality({i \in 1..Len(emitted[t]) : emitted[t][i] = w})

\* A variant of AmxCtx::new that writes `true` to the thread's flag on
\* success.
NewSetsFlag(t) ==
    /\ Len(emitted[t]) < MaxEmit
    /\ IF CTX_ACTIVE[t]
       THEN /\ result' = [result EXCEPT ![t] = "AlreadyActive"]
            /\ UNCHANGED <<CTX_ACTIVE, live, emitted>>
            /\ UNCHANGED memVars
       ELSE /\ emitted' = [emitted EXCEPT ![t] = Append(@, set)]
            /\ live' = [live EXCEPT ![t] = @ + 1]
            /\ result' = [result EXCEPT ![t] = "Ok"]
            /\ CTX_ACTIVE' = [CTX_ACTIVE EXCEPT ![t] = TRUE]
            /\ UNCHANGED memVars

\* A variant of AmxCtx::new that checks for the hardware first, on a machine
\* without it.
NewChecksSupport(t) ==
    /\ Len(emitted[t]) < MaxEmit
    /\ result' = [result EXCEPT ![t] = "Unsupported"]
    /\ UNCHANGED <<CTX_ACTIVE, live, emitted>>
    /\ UNCHANGED memVars

\* A variant of AmxCtx::new whose flag is one static shared by all threads
\* and set on success.
NewSharedFlag(t) ==
    /\ Len(emitted[t]) < MaxEmit
    /\ IF \E u \in Threads : CTX_ACTIVE[u]
       THEN /\ result' = [result EXCEPT ![t] = "AlreadyActive"]
            /\ UNCHANGED <<CTX_ACTIVE, live, emitted>>
            /\ UNCHANGED memVars
       ELSE /\ emitted' = [emitted EXCEPT ![t] = Append(@, set)]
            /\ live' = [live EXCEPT ![t] = @ + 1]
            /\ result' = [result EXCEPT ![t] = "Ok"]
            /\ CTX_ACTIVE' = [u \in Threads |-> TRUE]
            /\ UNCHANGED memVars

\* AmxCtx::new on thread t.  The flag is read and, when it is clear, `set`
\* is emitted and the context returned; the flag itself is not written.
New(t) ==
    /\ Len(emitted[t]) < MaxEmit
    /\ IF CTX_ACTIVE[t]
       THEN /\ result' = [result EXCEPT ![t] = "AlreadyActive"]
            /\ UNCHANGED <<CTX_ACTIVE, live, emitted>>
            /\ UNCHANGED memVars
       ELSE /\ emitted' = [emitted EXCEPT ![t] = Append(@, set)]
            /\ live' = [live EXCEPT ![t] = @ + 1]
            /\ result' = [result EXCEPT ![t] = "Ok"]
            /\ UNCHANGED CTX_ACTIVE
            /\ UNCHANGED memVars

\* A variant of Drop that writes `true` to the flag.
DropSetsFlag(t) ==
    /\ live[t] > 0
    /\ Len(emitted[t]) < MaxEmit
    /\ emitted' = [emitted EXCEPT ![t] = Append(@, clr)]
    /\ CTX_ACTIVE' = [CTX_ACTIVE EXCEPT ![t] = TRUE]
    /\ live' = [live EXCEPT ![t] = @ - 1]
    /\ UNCHANGED result
    /\ UNCHANGED memVars

\* A variant of Drop that does not emit `clr`.
DropWithoutClr(t) ==
    /\ live[t] > 0
    /\ Len(emitted[t]) < MaxEmit
    /\ CTX_ACTIVE' = [CTX_ACTIVE EXCEPT ![t] = FALSE]
    /\ live' = [live EXCEPT ![t] = @ - 1]
    /\ UNCHANGED <<result, emitted>>
    /\ UNCHANGED memVars

\* <AmxCtx as Drop>::drop of one of thread t's live contexts.
Drop(t) ==
    /\ live[t] > 0
    /\ Len(emitted[t]) < MaxEmit
    /\ emitted' = [emitted EXCEPT ![t] = Append(@, clr)]
    /\ CTX_ACTIVE' = [CTX_ACTIVE EXCEPT ![t] = FALSE]
    /\ live' = [live EXCEPT ![t] = @ - 1]
    /\ UNCHANGED result
    /\ UNCHANGED memVars

Next ==
    \/ \E t \in Threads : New(t)
    \/ \E t \in Threads : Drop(t)

Spec == Init /\ [][Next]_vars

\* What the coprocessor does with instruction `name` and its operand word.
\* A 128-byte transfer at an address that is no multiple of 128 breaks the
\* requirement stated for load1024_aligned and store1024_aligned, and an
\* interleaved transfer with the 128-byte flag set is described nowhere:
\* what they leave behind is not known.
HwExec(name, operand) ==
    LET file == FileOf(name)
        unaligned == HwPair(operand) /\ ~Aligned128(Addr(operand))
    IN  CASE name \in {"ldx", "ldy", "ldz"} ->
                 IF unaligned
                 THEN havoc' = havoc \cup {file} /\ UNCHANGED <<regs, mem>>
                 ELSE regs' = LoadRows(regs, mem, file, operand) /\ UNCHANGED <<mem, havoc>>
          [] name \in {"stx", "sty", "stz"} ->
                 IF unaligned
                 THEN havoc' = havoc \cup {"mem"} /\ UNCHANGED <<regs, mem>>
                 ELSE mem' = StoreRows(mem, regs, file, operand) /\ UNCHANGED <<regs, havoc>>
          [] name = "ldzi" ->
                 IF HwPair(operand)
                 THEN havoc' = havoc \cup {"Z"} /\ UNCHANGED <<regs, mem>>
                 ELSE regs' = LoadZI(regs, mem, operand) /\ UNCHANGED <<mem, havoc>>
          [] name = "stzi" ->
                 IF HwPair(operand)
                 THEN havoc' = havoc \cup {"mem"} /\ UNCHANGED <<regs, mem>>
                 ELSE mem' = StoreZI(mem, regs, operand) /\ UNCHANGED <<regs, havoc>>

\* The body shared by the LoadStore methods and the two interleaved
\* functions of load_store.rs, on the hardware backend:
\*   assert!(index < limit);
\*   ops.<name>(MemArgs { reg_offset: index as u64, size }.encode(), ptr as *mut ())
\* and in nativeops.rs  <name>(x | (ptr as u64 & 0x00ff_ffff_ffff_ffff)).
RawCall(call, limit, name, size) ==
    /\ callsLeft > 0
    /\ callsLeft' = callsLeft - 1
    /\ lsCall' = call
    /\ UNCHANGED <<arg, insn>>
    /\ IF call.index < limit
       THEN LET x == MemArgsEncode(call.index, size)
                operand == NativeOperand(x, call.ptr)
            IN  /\ rawOp' = [name |-> name, x |-> x, ptr |-> call.ptr]
                /\ hwOperand' = [op |-> Opcode(name), operand |-> operand]
                /\ issued' = <<[op |-> Opcode(name), operand |-> operand]>>
                /\ panicked' = FALSE
                /\ HwExec(name, operand)
       ELSE /\ rawOp' = NoRawOp
            /\ hwOperand' = NoOperand
            /\ issued' = <<>>
            /\ panicked' = TRUE
            /\ UNCHANGED hwVars
    /\ UNCHANGED ctxVars

\* LoadStore::load512 for XRow(index), YRow(index), ZRow(index).
load512(file, index, ptr) ==
    RawCall([api |-> "LoadStore", method |-> "load512", file |-> file,
             index |-> index, bytes |-> 64, ptr |-> ptr],
            RowLimit(file), LoadName(file), MemSize_64)

\* LoadStore::store512
store512(file, index, ptr) ==
    RawCall([api |-> "LoadStore", method |-> "store512", file |-> file,
             index |-> index, bytes |-> 64, ptr |-> ptr],
            RowLimit(file), StoreName(file), MemSize_64)

\* LoadStore::load1024_aligned
load1024_aligned(file, index, ptr) ==
    RawCall([api |-> "LoadStore", method |-> "load1024_aligned", file |-> file,
             index |-> index, bytes |-> 128, ptr |-> ptr],
            RowLimit(file), LoadName(file), MemSize_128)

\* LoadStore::store1024_aligned
store1024_aligned(file, index, ptr) ==
    RawCall([api |-> "LoadStore", method |-> "store1024_aligned", file |-> file,
             index |-> index, bytes |-> 128, ptr |-> ptr],
            RowLimit(file), StoreName(file), MemSize_128)

\* A variant of load512_z_interleaved that issues the plain load `ldz`.
load512_z_interleaved_ldz(index, ptr) ==
    RawCall([api |-> "LoadStore", method |-> "load512_z_interleaved", file |-> "Z",
             index |-> index, bytes |-> 64, ptr |-> ptr],
            64, "ldz", MemSize_64)

\* load_store.rs, load512_z_interleaved(ops, ptr, ZRow(index))
load512_z_interleaved(index, ptr) ==
    RawCall([api |-> "LoadStore", method |-> "load512_z_interleaved", file |-> "Z",
             index |-> index, bytes |-> 64, ptr |-> ptr],
            64, "ldzi", MemSize_64)

\* A variant of store512_z_interleaved that issues the plain store `stz`.
store512_z_interleaved_stz(index, ptr) ==
    RawCall([api |-> "LoadStore", method |-> "store512_z_interleaved", file |-> "Z",
             index |-> index, bytes |-> 64, ptr |-> ptr],
            64, "stz", MemSize_64)

\* load_store.rs, store512_z_interleaved(ops, ptr, ZRow(index))
store512_z_interleaved(index, ptr) ==
    RawCall([api |-> "LoadStore", method |-> "store512_z_interleaved", file |-> "Z",
             index |-> index, bytes |-> 64, ptr |-> ptr],
            64, "stzi", MemSize_64)

\* The body shared by the load/store methods of lib.rs's trait Amx:
\*   debug_assert!(index < 64);
\*   self.<name>(MemArgs { ptr: ptr as *mut (), reg_offset: index as u64, size }.encode())
\* and in ops.rs  <name>(x) is op_in::<OP>(x).  debug_assert! is compiled
\* only into a build with debug assertions (dbg); without them the call
\* goes on with the out-of-range index.
AmxCall(call, name, size, dbg) ==
    /\ callsLeft > 0
    /\ callsLeft' = callsLeft - 1
    /\ lsCall' = call
    /\ UNCHANGED <<arg, insn>>
    /\ IF dbg /\ ~(call.index < 64)
       THEN /\ rawOp' = NoRawOp
            /\ hwOperand' = NoOperand
            /\ issued' = <<>>
            /\ panicked' = TRUE
            /\ UNCHANGED hwVars
       ELSE LET x == LibMemArgsEncode(call.ptr, call.index, size) IN
            /\ rawOp' = [name |-> name, x |-> x, ptr |-> call.ptr]
            /\ hwOperand' = [op |-> Opcode(name), operand |-> x]
            /\ issued' = <<[op |-> Opcode(name), operand |-> x]>>
            /\ panicked' = FALSE
            /\ HwExec(name, x)
    /\ UNCHANGED ctxVars

\* Amx::load512_x, load512_y, load512_z
Amx_load512(file, index, ptr, dbg) ==
    AmxCall([api |-> "Amx", method |-> "load512", file |-> file,
             index |-> index, bytes |-> 64, ptr |-> ptr],
            LoadName(file), MemSize_64, dbg)

\* Amx::load512_z_interleaved
Amx_load512_z_interleaved(index, ptr, dbg) ==
    AmxCall([api |-> "Amx", method |-> "load512_z_interleaved", file |-> "Z",
             index |-> index, bytes |-> 64, ptr |-> ptr],
            "ldzi", MemSize_64, dbg)

\* A variant of the 128-byte loads that encodes the size of a 64-byte one.
Amx_load1024_aligned_64(file, index, ptr, dbg) ==
    AmxCall([api |-> "Amx", method |-> "load1024_aligned", file |-> file,
             index |-> index, bytes |-> 128, ptr |-> ptr],
            LoadName(file), MemSize_64, dbg)

\* Amx::load1024_x_aligned, load1024_y_aligned, load1024_z_aligned
Amx_load1024_aligned(file, index, ptr, dbg) ==
    AmxCall([api |-> "Amx", method |-> "load1024_aligned", file |-> file,
             index |-> index, bytes |-> 128, ptr |-> ptr],
            LoadName(file), MemSize_128, dbg)

\* Amx::store512_x, store512_y, store512_z
Amx_store512(file, index, ptr, dbg) ==
    AmxCall([api |-> "Amx", method |-> "store512", file |-> file,
             index |-> index, bytes |-> 64, ptr |-> ptr],
            StoreName(file), MemSize_64, dbg)

\* Amx::store512_z_interleaved
Amx_store512_z_interleaved(index, ptr, dbg) ==
    AmxCall([api |-> "Amx", method |-> "store512_z_interleaved", file |-> "Z",
             index |-> index, bytes |-> 64, ptr |-> ptr],
            "stzi", MemSize_64, dbg)

\* Amx::store1024_x_aligned, store1024_y_aligned, store1024_z_aligned
Amx_store1024_aligned(file, index, ptr, dbg) ==
    AmxCall([api |-> "Amx", method |-> "store1024_aligned", file |-> file,
             index |-> index, bytes |-> 128, ptr |-> ptr],
            StoreName(file), MemSize_128, dbg)

\* Every row address and pointer a load/store method can be given.
InitMem ==
    /\ CTX_ACTIVE = [t \in Threads |-> FALSE]
    /\ live = [t \in Threads |-> 0]
    /\ emitted = [t \in Threads |-> <<>>]
    /\ result = [t \in Threads |-> "none"]
    /\ arg \in {[file |-> f, index |-> i, ptr |-> p, dst |-> p] :
                   f \in Files, i \in RowSamples, p \in PtrSamples}
    /\ lsCall = NoCall
    /\ rawOp = NoRawOp
    /\ hwOperand = NoOperand
    /\ panicked = FALSE
    /\ issued = <<>>
    /\ callsLeft = 1
    /\ regs = ZeroRegs
    /\ mem = <<>>
    /\ havoc = {}
    /\ insn = NoInsn

NextMem ==
    \/ load512(arg.file, arg.index, arg.ptr)
    \/ store512(arg.file, arg.index, arg.dst)
    \/ load1024_aligned(arg.file, arg.index, arg.ptr)
    \/ store1024_aligned(arg.file, arg.index, arg.dst)
    \/ arg.file = "Z" /\ load512_z_interleaved(arg.index, arg.ptr)
    \/ arg.file = "Z" /\ store512_z_interleaved(arg.index, arg.dst)
    \/ \E dbg \in BOOLEAN : Amx_load512(arg.file, arg.index, arg.ptr, dbg)
    \/ \E dbg \in BOOLEAN : Amx_store512(arg.file, arg.index, arg.dst, dbg)
    \/ \E dbg \in BOOLEAN : Amx_load1024_aligned(arg.file, arg.index, arg.ptr, dbg)
    \/ \E dbg \in BOOLEAN : Amx_store1024_aligned(arg.file, arg.index, arg.dst, dbg)
    \/ \E dbg \in BOOLEAN :
           arg.file = "Z" /\ Amx_load512_z_interleaved(arg.index, arg.ptr, dbg)
    \/ \E dbg \in BOOLEAN :
           arg.file = "Z" /\ Amx_store512_z_interleaved(arg.index, arg.dst, dbg)

\* The load/store layer alone: one method applied to a row address and
\* pointer drawn at the start.
SpecMem == InitMem /\ [][NextMem]_vars

(***************************************************************************)
(* lib.rs: Amx::read_x, read_y, read_z, and runs of several calls          *)
(***************************************************************************)

\* A variant of the buffer pointer that advances by 32 bytes per row.
ReadPtrStride32(buf, i) == PtrOffset(buf, i * 32)

\* `(ret.as_mut_ptr() as *mut u8).offset(i as isize * 64)`
ReadPtr(buf, i) == PtrOffset(buf, i * 64)

\* The operand of the store512_x / _y / _z that the loop makes for row i.
ReadOperand(buf, i) == LibMemArgsEncode(ReadPtr(buf, i), i, MemSize_64)

\* Memory m after `for i in 0..8` (0..64 for z): iteration i stores row i of
\* the file through ReadPtr(buf, i).  No store changes a register, so the
\* stores of the loop are the stores each iteration makes on its own, in
\* order.
ReadLoop(m, file, buf) ==
    m \o [j \in 1..NumRows(file) |->
             StoreRows(<<>>, regs, file, ReadOperand(buf, j - 1))[1]]

\* Amx::read_x, read_y, read_z with the result buffer `ret` at address buf.
\* The index of every store is below 64, so its debug_assert! holds.
Amx_read(file, buf) ==
    /\ callsLeft > 0
    /\ callsLeft' = callsLeft - 1
    /\ LET n == NumRows(file)
           name == StoreName(file)
       IN  /\ lsCall' = [api |-> "Amx", method |-> "read", file |-> file,
                         index |-> 0, bytes |-> 64 * n, ptr |-> buf]
           /\ rawOp' = [name |-> name, x |-> ReadOperand(buf, n - 1),
                        ptr |-> ReadPtr(buf, n - 1)]
           /\ hwOperand' = [op |-> Opcode(name), operand |-> ReadOperand(buf, n - 1)]
           /\ issued' = [i \in 1..n |->
                            [op |-> Opcode(name), operand |-> ReadOperand(buf, i - 1)]]
    /\ panicked' = FALSE
    /\ mem' = ReadLoop(mem, file, buf)
    /\ UNCHANGED <<arg, regs, havoc, insn>>
    /\ UNCHANGED ctxVars

\* The rows tried: the first two (the two halves an interleaved transfer
\* can address), the last row of x and y, and the last row of z.
HwRowSamples == {0, 1, 7, 63}

\* Two 128-byte aligned buffers, the second one reached through a pointer
\* with a tag in its top byte.
BufA == WordOfBits({7, 12, 21, 34, 46})

BufB == WordOfBits({8, 13, 30, 56, 63})

\* Loads read the buffer at arg.ptr, stores and reads write the buffer at
\* arg.dst, which is the same buffer or another one.
InitHw ==
    /\ CTX_ACTIVE = [t \in Threads |-> FALSE]
    /\ live = [t \in Threads |-> 0]
    /\ emitted = [t \in Threads |-> <<>>]
    /\ result = [t \in Threads |-> "none"]
    /\ arg \in {[file |-> f, index |-> i, ptr |-> BufA, dst |-> d] :
                   f \in Files, i \in HwRowSamples, d \in {BufA, BufB}}
    /\ lsCall = NoCall
    /\ rawOp = NoRawOp
    /\ hwOperand = NoOperand
    /\ panicked = FALSE
    /\ issued = <<>>
    /\ callsLeft = MaxCalls
    /\ regs = UsedRegs
    /\ mem = <<>>
    /\ havoc = {}
    /\ insn = NoInsn

NextHw ==
    \/ NextMem
    \/ Amx_read(arg.file, arg.dst)

\* Runs of MaxCalls load, store and read calls on the register files.
SpecHw == InitHw /\ [][NextHw]_vars

(***************************************************************************)
(* nativeops.rs: op_in                                                     *)
(***************************************************************************)

\* op_in::<op>(operand) with the operand allocated to register x<r>: the
\* assembler evaluates the `.word` expression.
op_in(op, r) ==
    /\ insn' = [op |-> op, reg |-> r, word |-> OpInWord(op, r)]
    /\ UNCHANGED <<arg, lsCall, rawOp, hwOperand, panicked, issued, callsLeft>>
    /\ UNCHANGED hwVars
    /\ UNCHANGED ctxVars

\* Every instruction and every register op_in can be expanded with.
InitAsm ==
    /\ CTX_ACTIVE = [t \in Threads |-> FALSE]
    /\ live = [t \in Threads |-> 0]
    /\ emitted = [t \in Threads |-> <<>>]
    /\ result = [t \in Threads |-> "none"]
    /\ arg \in {[op |-> op, reg |-> r] : op \in InOps, r \in XRegs}
    /\ lsCall = NoCall
    /\ rawOp = NoRawOp
    /\ hwOperand = NoOperand
    /\ panicked = FALSE
    /\ issued = <<>>
    /\ callsLeft = 0
    /\ regs = ZeroRegs
    /\ mem = <<>>
    /\ havoc = {}
    /\ insn = NoInsn

NextAsm == op_in(arg.op, arg.reg)

SpecAsm == InitAsm /\ [][NextAsm]_vars

(***************************************************************************)
(* lib.rs: Amx::outer_product_i16_xy_to_z                                  *)
(***************************************************************************)

\* `b as usize` for a bool b.
BoolToInt(b) == IF b THEN 1 ELSE 0

\* The byte offsets into X and Y tried: the ends of the legal range 0..512,
\* values with a single and with many bits set, and the first MaxOver illegal ones.
OffsetSamples == {0, 1, 2, 62, 255, 256, 511} \cup (512..(511 + MaxOver))

\* The Z row indices tried by the outer product.
ZIndexSamples == {0, 1, 2, 31, 32, 50, 62, 63} \cup (64..(63 + MaxOver))

\* x.wrapping_mul(y) on 16-bit values: the low 16 bits of the product, which
\* are the same for i16 and u16.  The product is formed from the two bytes
\* of a so that no intermediate value exceeds 2^31.
Mul16(a, b) ==
    (((a % 256) * b) + ((((a \div 256) * b) % 256) * 256)) % 65536

\* A variant that reads past byte 511 from the last row instead of wrapping.
MacByteLastRow(r, file, b) == r[file][IF b >= 512 THEN 7 ELSE b \div 64][b % 64]

\* read_array_wrapping(&in_x, i): byte (i mod 512) of the file, whose row n is
\* bytes [64 n, 64 n + 64).
MacByte(r, file, b) == r[file][(b % 512) \div 64][b % 64]

\* i16::from_le_bytes of the two bytes at offset + 2 i, as an unsigned value.
MacLane(r, file, offset, i) ==
    MacByte(r, file, offset + (2 * i)) + (256 * MacByte(r, file, offset + (2 * i) + 1))

\* A variant of the first output row that takes all six bits of z_index.
MacStartRowAllBits(operand) == Field(operand, 20, 6)

\* "Only the least significant bit of z_index will be taken into
\* consideration": out_row = (z_index % 2 + y_i) % 64.
MacStartRow(operand) == operand[20]

\* The operand is one the instruction is used with here: every bit outside
\* the fields y_offset [0,9), x_offset [10,19), z_index [20,26) and the
\* three flags 27, 28, 29 is zero.
MacDefined(operand) == \A i \in {9, 19, 26} \cup (30..63) : operand[i] = 0

\* The register files after mac16 without accumulation and with both inputs
\* used (tests/outer_prod.rs, "Calculate the expected answer"): the product
\* of x[i] and y[j] goes to the 16-bit element i of row start + 2 j.
MacRows(r, operand) ==
    LET xo == Field(operand, 10, 9)
        yo == Field(operand, 0, 9)
        start == MacStartRow(operand)
    IN  [r EXCEPT !["Z"] =
            [row \in 0..63 |->
                \* row = (start + 2 j) % 64
                LET d == (row - start + 64) % 64 IN
                IF d % 2 = 0
                THEN LET y == MacLane(r, "Y", yo, d \div 2) IN
                     [k \in 0..63 |->
                        LET prod == Mul16(MacLane(r, "X", xo, k \div 2), y) IN
                        IF k % 2 = 0 THEN prod % 256 ELSE prod \div 256]
                ELSE r["Z"][row]]]

\* What the coprocessor does with mac16.  The rows written are every second
\* row of z from the start row on.  What they receive is known when the
\* word asks for no accumulation (bit 27 set) and ignores neither input, and
\* x and y are known; with accumulation or an ignored input the source
\* describes no values, and those rows are no longer known.  A word with
\* bits outside the fields is described nowhere: all of z is no longer known.
HwMac(operand) ==
    IF ~MacDefined(operand)
    THEN havoc' = havoc \cup {"Z"} /\ UNCHANGED <<regs, mem>>
    ELSE IF /\ operand[27] = 1
            /\ operand[28] = 0
            /\ operand[29] = 0
            /\ havoc \cap {"X", "Y"} = {}
         THEN regs' = MacRows(regs, operand) /\ UNCHANGED <<mem, havoc>>
         ELSE /\ havoc' = havoc \cup {IF MacStartRow(operand) % 2 = 0 THEN "Z0" ELSE "Z1"}
              /\ UNCHANGED <<regs, mem>>

\* A variant of the operand word that shifts x_offset_bytes by 9.
Mac16WordXShift9(x_offset_bytes, y_offset_bytes, z_index, accumulate, ignore_x, ignore_y) ==
    BitOr(BitOr(BitOr(BitOr(BitOr(
        ToU64(y_offset_bytes),
        Shl(ToU64(x_offset_bytes), 9)),
        Shl(ToU64(z_index), 20)),
        Shl(ToU64(BoolToInt(~accumulate)), 27)),
        Shl(ToU64(BoolToInt(ignore_x)), 28)),
        Shl(ToU64(BoolToInt(ignore_y)), 29))

\* A variant of the operand word that does not invert accumulate.
Mac16WordNotInverted(x_offset_bytes, y_offset_bytes, z_index, accumulate, ignore_x, ignore_y) ==
    BitOr(BitOr(BitOr(BitOr(BitOr(
        ToU64(y_offset_bytes),
        Shl(ToU64(x_offset_bytes), 10)),
        Shl(ToU64(z_index), 20)),
        Shl(ToU64(BoolToInt(accumulate)), 27)),
        Shl(ToU64(BoolToInt(ignore_x)), 28)),
        Shl(ToU64(BoolToInt(ignore_y)), 29))

\* The word outer_product_i16_xy_to_z passes to mac16:
\*   y_offset_bytes | (x_offset_bytes << 10) | (z_index << 20)
\*     | (((!accumulate) as usize) << 27) | ((ignore_x as usize) << 28)
\*     | ((ignore_y as usize) << 29)
Mac16Word(x_offset_bytes, y_offset_bytes, z_index, accumulate, ignore_x, ignore_y) ==
    BitOr(BitOr(BitOr(BitOr(BitOr(
        ToU64(y_offset_bytes),
        Shl(ToU64(x_offset_bytes), 10)),
        Shl(ToU64(z_index), 20)),
        Shl(ToU64(BoolToInt(~accumulate)), 27)),
        Shl(ToU64(BoolToInt(ignore_x)), 28)),
        Shl(ToU64(BoolToInt(ignore_y)), 29))

\* Amx::outer_product_i16_xy_to_z(a.x_offset_bytes, .., a.ignore_y):
\*   debug_assert!(x_offset_bytes < 0x200); debug_assert!(y_offset_bytes < 0x200);
\*   debug_assert!(z_index < 64);
\*   self.mac16(word)
\* and on the hardware backend mac16(x) is op_in::<14>(x).
outer_product_i16_xy_to_z(a, dbg) ==
    /\ IF dbg /\ ~(a.x_offset_bytes < 512 /\ a.y_offset_bytes < 512 /\ a.z_index < 64)
       THEN /\ rawOp' = NoRawOp
            /\ hwOperand' = NoOperand
            /\ issued' = <<>>
            /\ panicked' = TRUE
            /\ UNCHANGED hwVars
       ELSE LET x == Mac16Word(a.x_offset_bytes, a.y_offset_bytes, a.z_index,
                               a.accumulate, a.ignore_x, a.ignore_y) IN
            /\ rawOp' = [name |-> "mac16", x |-> x, ptr |-> ToU64(0)]
            /\ hwOperand' = [op |-> Opcode("mac16"), operand |-> x]
            /\ issued' = <<[op |-> Opcode("mac16"), operand |-> x]>>
            /\ panicked' = FALSE
            /\ HwMac(x)
    /\ UNCHANGED <<arg, lsCall, callsLeft, insn>>
    /\ UNCHANGED ctxVars

\* Every argument tuple outer_product_i16_xy_to_z can be given.  What x and y
\* hold is not followed here.
InitMac ==
    /\ CTX_ACTIVE = [t \in Threads |-> FALSE]
    /\ live = [t \in Threads |-> 0]
    /\ emitted = [t \in Threads |-> <<>>]
    /\ result = [t \in Threads |-> "none"]
    /\ arg \in {[x_offset_bytes |-> xo, y_offset_bytes |-> yo, z_index |-> zi,
                 accumulate |-> acc, ignore_x |-> ix, ignore_y |-> iy] :
                   xo \in OffsetSamples, yo \in OffsetSamples, zi \in ZIndexSamples,
                   acc \in BOOLEAN, ix \in BOOLEAN, iy \in BOOLEAN}
    /\ lsCall = NoCall
    /\ rawOp = NoRawOp
    /\ hwOperand = NoOperand
    /\ panicked = FALSE
    /\ issued = <<>>
    /\ callsLeft = 0
    /\ regs = ZeroRegs
    /\ mem = <<>>
    /\ havoc = {"X", "Y"}
    /\ insn = NoInsn

NextMac == \E dbg \in BOOLEAN : outer_product_i16_xy_to_z(arg, dbg)

\* The outer product alone, applied to an argument tuple drawn at the start.
SpecMac == InitMac /\ [][NextMac]_vars

\* tests/outer_prod.rs takes x offsets in steps of 31, y offsets in steps of
\* 47 and the rows 0, 1, 50, 63: the first step of each, offsets whose
\* lanes wrap past byte 511, and the first MaxOver rows past the last.
ProdXOffsets == {0, 31, 511}

ProdYOffsets == {0, 470}

ProdZIndexes == {0, 1, 50, 63} \cup (64..(63 + MaxOver))

\* The outer product on register files whose contents are known.
InitProd ==
    /\ CTX_ACTIVE = [t \in Threads |-> FALSE]
    /\ live = [t \in Threads |-> 0]
    /\ emitted = [t \in Threads |-> <<>>]
    /\ result = [t \in Threads |-> "none"]
    /\ arg \in {[x_offset_bytes |-> xo, y_offset_bytes |-> yo, z_index |-> zi,
                 accumulate |-> acc, ignore_x |-> ix, ignore_y |-> iy] :
                   xo \in ProdXOffsets, yo \in ProdYOffsets, zi \in ProdZIndexes,
                   acc \in BOOLEAN, ix \in BOOLEAN, iy \in BOOLEAN}
    /\ lsCall = NoCall
    /\ rawOp = NoRawOp
    /\ hwOperand = NoOperand
    /\ panicked = FALSE
    /\ issued = <<>>
    /\ callsLeft = 0
    /\ regs = UsedRegs
    /\ mem = <<>>
    /\ havoc = {}
    /\ insn = NoInsn

NextProd == \E dbg \in BOOLEAN : outer_product_i16_xy_to_z(arg, dbg)

SpecProd == InitProd /\ [][NextProd]_vars

(***************************************************************************)
(* genlut.rs: the lookup-table instruction                                 *)
(***************************************************************************)

\* The types implementing LutTy, as (direction, index, value), in the order
\* of define_lut_ty!.
LutTys ==
    { <<"Reverse", "Index4", "F32">>, <<"Reverse", "Index5", "F16">>,
      <<"Reverse", "Index4", "F64">>, <<"Reverse", "Index4", "I32">>,
      <<"Reverse", "Index5", "I16">>, <<"Reverse", "Index4", "U32">>,
      <<"Reverse", "Index5", "U16">>, <<"Normal", "Index2", "X32">>,
      <<"Normal", "Index2", "X16">>, <<"Normal", "Index2", "X8">>,
      <<"Normal", "Index4", "X64">>, <<"Normal", "Index4", "X32">>,
      <<"Normal", "Index4", "X16">>, <<"Normal", "Index4", "X8">>,
      <<"Normal", "Index5", "X16">>, <<"Normal", "Index5", "X8">> }

\* A variant of the table in which (Normal, Index5, X8) repeats code 14.
genlut_mode_dup(ty) ==
    CASE ty = <<"Reverse", "Index4", "F32">> -> 0
      [] ty = <<"Reverse", "Index5", "F16">> -> 1
      [] ty = <<"Reverse", "Index4", "F64">> -> 2
      [] ty = <<"Reverse", "Index4", "I32">> -> 3
      [] ty = <<"Reverse", "Index5", "I16">> -> 4
      [] ty = <<"Reverse", "Index4", "U32">> -> 5
      [] ty = <<"Reverse", "Index5", "U16">> -> 6
      [] ty = <<"Normal", "Index2", "X32">> -> 7
      [] ty = <<"Normal", "Index2", "X16">> -> 8
      [] ty = <<"Normal", "Index2", "X8">> -> 9
      [] ty = <<"Normal", "Index4", "X64">> -> 10
      [] ty = <<"Normal", "Index4", "X32">> -> 11
      [] ty = <<"Normal", "Index4", "X16">> -> 12
      [] ty = <<"Normal", "Index4", "X8">> -> 13
      [] ty = <<"Normal", "Index5", "X16">> -> 14
      [] ty = <<"Normal", "Index5", "X8">> -> 14

\* LutTy::genlut_mode, as defined by define_lut_ty!.
genlut_mode(ty) ==
    CASE ty = <<"Reverse", "Index4", "F32">> -> 0
      [] ty = <<"Reverse", "Index5", "F16">> -> 1
      [] ty = <<"Reverse", "Index4", "F64">> -> 2
      [] ty = <<"Reverse", "Index4", "I32">> -> 3
      [] ty = <<"Reverse", "Index5", "I16">> -> 4
      [] ty = <<"Reverse", "Index4", "U32">> -> 5
      [] ty = <<"Reverse", "Index5", "U16">> -> 6
      [] ty = <<"Normal", "Index2", "X32">> -> 7
      [] ty = <<"Normal", "Index2", "X16">> -> 8
      [] ty = <<"Normal", "Index2", "X8">> -> 9
      [] ty = <<"Normal", "Index4", "X64">> -> 10
      [] ty = <<"Normal", "Index4", "X32">> -> 11
      [] ty = <<"Normal", "Index4", "X16">> -> 12
      [] ty = <<"Normal", "Index4", "X8">> -> 13
      [] ty = <<"Normal", "Index5", "X16">> -> 14
      [] ty = <<"Normal", "Index5", "X8">> -> 15

\* The two operands of `|` in LutIn::as_genlut_input_param, for an input
\* [file |-> "X" or "Y", offset |-> n] (XBytes(n), YBytes(n)):
\* `self.0 as u64`, and for YBytes `1u64 << 10`.
LutInOffset(input) == ToU64(input.offset)

LutInFlag(input) == IF input.file = "Y" THEN Shl(ToU64(1), 10) ELSE ToU64(0)

\* LutIn::as_genlut_input_param
as_genlut_input_param(input) == BitOr(LutInOffset(input), LutInFlag(input))

\* The debug_assert!(self.0 < 512) of as_genlut_input_param.
LutInAssert(input) == input.offset < 512

\* The two operands of `|` in LutOut::as_genlut_output_param, for an output
\* [file |-> "X", "Y" or "Z", n |-> row] (XRow(n), YRow(n), ZRow(n)):
\* `(self.0 as u64) << 20`, and `1u64 << 25` for YRow, `1u64 << 26` for ZRow.
LutOutRow(output) == Shl(ToU64(output.n), 20)

\* A variant that marks a ZRow output with bit 25, like a YRow.
LutOutFlagZ25(output) ==
    CASE output.file = "X" -> ToU64(0)
      [] output.file = "Y" -> Shl(ToU64(1), 25)
      [] output.file = "Z" -> Shl(ToU64(1), 25)

LutOutFlag(output) ==
    CASE output.file = "X" -> ToU64(0)
      [] output.file = "Y" -> Shl(ToU64(1), 25)
      [] output.file = "Z" -> Shl(ToU64(1), 26)

\* LutOut::as_genlut_output_param
as_genlut_output_param(output) == BitOr(LutOutRow(output), LutOutFlag(output))

\* The debug_assert!(self.0 < 8) for XRow and YRow, (self.0 < 64) for ZRow.
LutOutAssert(output) == output.n < RowLimit(output.file)

\* A variant of the word that shifts the mode by 52.
LutWordModeShift52(input, table_row, output, mode) ==
    BitOr(BitOr(BitOr(as_genlut_input_param(input),
                      as_genlut_output_param(output)),
                Shl(ToU64(genlut_mode(mode)), 52)),
          Shl(ToU64(table_row), 60))

\* The word lut passes to genlut:
\*   input.as_genlut_input_param() | output.as_genlut_output_param()
\*     | (mode.genlut_mode() << 53) | ((table_row as u64) << 60)
LutWord(input, table_row, output, mode) ==
    BitOr(BitOr(BitOr(as_genlut_input_param(input),
                      as_genlut_output_param(output)),
                Shl(ToU64(genlut_mode(mode)), 53)),
          Shl(ToU64(table_row), 60))

\* What genlut does to the register files is known from qc_genlut_lut8x16
\* alone, which looks 4-bit indices up in a table of bytes, mode
\* (Normal, Index4, X8), and writes to a row of x.
\*
\* The byte at offset b of a register file (b below 512).
LutByte(r, file, b) == r[file][b \div 64][b % 64]

\* A variant that takes the high nibble of an index byte first.
LutIndexHighFirst(byte, i) == (byte \div (16 ^ (1 - (i % 2)))) % 16

\* `(indices[i / 2] >> (i % 2 * 4)) & 0xf`, for the byte indices[i / 2].
LutIndex(byte, i) == (byte \div (16 ^ (i % 2))) % 16

\* The 64-byte windows [a, a + 64) and [b, b + 64) of the test's overlap
\* check, which also compares the index window with the table row moved up
\* by 512.
LutOverlap(index_offset, table_row) ==
    LET lo == table_row * 64 IN
    \/ (index_offset < lo + 64 /\ lo < index_offset + 64)
    \/ (index_offset < lo + 512 + 64 /\ lo + 512 < index_offset + 64)

\* The words the test can issue without one of its own loads failing: only
\* the fields of lut are set, the output is a row of x, the mode is
\* (Normal, Index4, X8), the 64 bytes at the index offset and the row after
\* them lie inside the file, and the index window is clear of the table row.
LutDefined(operand) ==
    /\ Field(operand, 53, 4) = genlut_mode(<<"Normal", "Index4", "X8">>)
    /\ \A i \in {9} \cup (11..19) \cup (23..52) \cup (57..59) \cup {63} : operand[i] = 0
    /\ Field(operand, 0, 9) + 64 <= 448
    /\ ~LutOverlap(Field(operand, 0, 9), Field(operand, 60, 3))

\* `expected[i] = values[(indices[i / 2] >> (i % 2 * 4)) & 0xf]`: the row
\* the instruction leaves in x, from the registers before it.
LutRows(r, operand) ==
    LET index_offset == Field(operand, 0, 9)
        file == IF operand[10] = 1 THEN "Y" ELSE "X"
        table_row == Field(operand, 60, 3)
        out_row == Field(operand, 20, 3)
    IN  [r EXCEPT !["X"][out_row] =
            [i \in 0..63 |->
                r["X"][table_row][LutIndex(LutByte(r, file, index_offset + (i \div 2)), i)]]]

\* genlut on the hardware.  Outside LutDefined, or when the registers read
\* are not known, the output's register file is no longer known.
HwLut(operand) ==
    IF LutDefined(operand) /\ havoc \cap {"X", "Y"} = {}
    THEN regs' = LutRows(regs, operand) /\ UNCHANGED <<mem, havoc>>
    ELSE /\ havoc' = havoc \cup {IF operand[26] = 1 THEN "Z"
                                  ELSE IF operand[25] = 1 THEN "Y" ELSE "X"}
         /\ UNCHANGED <<regs, mem>>

\* lut(ops, a.input, XRow(a.table_row), a.output, a.mode).  The only
\* assertions are the debug_assert! of the input and output parameters;
\* table_row is not checked.  On the hardware backend genlut(x) is
\* op_in::<22>(x).
lut(a, dbg) ==
    /\ IF dbg /\ ~(LutInAssert(a.input) /\ LutOutAssert(a.output))
       THEN /\ rawOp' = NoRawOp
            /\ hwOperand' = NoOperand
            /\ issued' = <<>>
            /\ panicked' = TRUE
            /\ UNCHANGED hwVars
       ELSE LET x == LutWord(a.input, a.table_row, a.output, a.mode) IN
            /\ rawOp' = [name |-> "genlut", x |-> x, ptr |-> ToU64(0)]
            /\ hwOperand' = [op |-> Opcode("genlut"), operand |-> x]
            /\ issued' = <<[op |-> Opcode("genlut"), operand |-> x]>>
            /\ panicked' = FALSE
            /\ HwLut(x)
    /\ UNCHANGED <<arg, lsCall, callsLeft, insn>>
    /\ UNCHANGED ctxVars

\* The inputs, outputs and table rows tried.
LutOffsetSamples == {0, 511} \cup (512..(511 + MaxOver))

LutInSamples == {[file |-> f, offset |-> o] : f \in {"X", "Y"}, o \in LutOffsetSamples}

LutOutSamples ==
    {[file |-> f, n |-> n] : f \in {"X", "Y"}, n \in {0, 5, 7} \cup (8..(7 + MaxOver))}
        \cup {[file |-> "Z", n |-> n] : n \in {0, 31, 32, 63} \cup (64..(63 + MaxOver))}

TableRowSamples == {0, 5, 7} \cup (8..(7 + MaxOver))

\* Every argument tuple lut can be given.
InitLut ==
    /\ CTX_ACTIVE = [t \in Threads |-> FALSE]
    /\ live = [t \in Threads |-> 0]
    /\ emitted = [t \in Threads |-> <<>>]
    /\ result = [t \in Threads |-> "none"]
    /\ arg \in {[input |-> i, table_row |-> tr, output |-> o, mode |-> m] :
                   i \in LutInSamples, tr \in TableRowSamples,
                   o \in LutOutSamples, m \in LutTys}
    /\ lsCall = NoCall
    /\ rawOp = NoRawOp
    /\ hwOperand = NoOperand
    /\ panicked = FALSE
    /\ issued = <<>>
    /\ callsLeft = 0
    /\ regs = ZeroRegs
    /\ mem = <<>>
    /\ havoc = {}
    /\ insn = NoInsn

NextLut == \E dbg \in BOOLEAN : lut(arg, dbg)

\* lut alone, applied to an argument tuple drawn at the start.
SpecLut == InitLut /\ [][NextLut]_vars

\* The calls of qc_genlut_lut8x16: index offsets, table rows and output rows
\* as the test reduces them, with one more mode for comparison.
TableOffsets == {0, 31, 100, 384}

TableRows == {0, 5, 7}

TableModes == {<<"Normal", "Index4", "X8">>, <<"Normal", "Index2", "X8">>}

InitTable ==
    /\ CTX_ACTIVE = [t \in Threads |-> FALSE]
    /\ live = [t \in Threads |-> 0]
    /\ emitted = [t \in Threads |-> <<>>]
    /\ result = [t \in Threads |-> "none"]
    /\ arg \in {[input |-> [file |-> f, offset |-> o], table_row |-> tr,
                  output |-> [file |-> "X", n |-> n], mode |-> m] :
                   f \in {"X", "Y"}, o \in TableOffsets, tr \in TableRows,
                   n \in TableRows, m \in TableModes}
    /\ lsCall = NoCall
    /\ rawOp = NoRawOp
    /\ hwOperand = NoOperand
    /\ panicked = FALSE
    /\ issued = <<>>
    /\ callsLeft = 0
    /\ regs = UsedRegs
    /\ mem = <<>>
    /\ havoc = {}
    /\ insn = NoInsn

NextTable == \E dbg \in BOOLEAN : lut(arg, dbg)

\* lut on register files whose contents are followed.
SpecTable == InitTable /\ [][NextTable]_vars

(***************************************************************************)
(* emu.rs: the emulated context AmxEmuCtx                                  *)
(***************************************************************************)

\* The methods of `unsafe impl AmxOps for AmxEmuCtx`.
EmuOps ==
    {"ldx", "ldy", "stx", "sty", "ldz", "stz", "ldzi", "stzi", "extrx", "extry",
     "fma64", "fms64", "fma32", "fms32", "mac16", "fma16", "fms16",
     "vecint", "vecfp", "matint", "matfp", "genlut"}

\* The methods that take a pointer next to the operand word.
EmuMemOps == {"ldx", "ldy", "stx", "sty", "ldz", "stz", "ldzi", "stzi"}

\* Every method of AmxEmuCtx: the body is `todo!()`, which panics before
\* anything is read or written.  `regs` is the AmxSt of the context here, and
\* no instruction is issued.
Emu(name, x, ptr) ==
    /\ callsLeft > 0
    /\ callsLeft' = callsLeft - 1
    /\ lsCall' = [api |-> "AmxEmuCtx", method |-> name, file |-> "none", index |-> 0,
                  bytes |-> 0, ptr |-> ptr]
    /\ rawOp' = [name |-> name, x |-> x, ptr |-> ptr]
    /\ hwOperand' = NoOperand
    /\ issued' = <<>>
    /\ panicked' = TRUE
    /\ UNCHANGED <<arg, insn>>
    /\ UNCHANGED hwVars
    /\ UNCHANGED ctxVars

\* The operand words and pointers the methods are tried with.
EmuRowSamples == {0, 7}

EmuWords == {MemArgsEncode(i, size) : i \in EmuRowSamples, size \in {MemSize_64, MemSize_128}}

\* AmxEmuCtx::new(): AmxSt::default() is all zeros.
InitEmu ==
    /\ CTX_ACTIVE = [t \in Threads |-> FALSE]
    /\ live = [t \in Threads |-> 0]
    /\ emitted = [t \in Threads |-> <<>>]
    /\ result = [t \in Threads |-> "none"]
    /\ arg \in {[x |-> x, ptr |-> p] : x \in EmuWords, p \in PtrSamples}
    /\ lsCall = NoCall
    /\ rawOp = NoRawOp
    /\ hwOperand = NoOperand
    /\ panicked = FALSE
    /\ issued = <<>>
    /\ callsLeft = 1
    /\ regs = ZeroRegs
    /\ mem = <<>>
    /\ havoc = {}
    /\ insn = NoInsn

NextEmu ==
    \E name \in EmuOps :
        Emu(name, arg.x, IF name \in EmuMemOps THEN arg.ptr ELSE ToU64(0))

\* One method of a fresh AmxEmuCtx, applied to an operand drawn at the start.
SpecEmu == InitEmu /\ [][NextEmu]_vars

(***************************************************************************)
(* The activation guard (spec 4.6, 5)                                      *)
(***************************************************************************)

\* C1: a thread never has more than one live AmxCtx.
C1_AtMostOneLiveCtx == \A t \in Threads : live[t] <= 1

\* C2: AmxCtx::new called while an earlier context of the same thread is
\* still live returns Err(AlreadyActive) and leaves the earlier context live.
C2_SecondNewAlreadyActive ==
    [][\A t \in Threads :
          (New(t) /\ live[t] >= 1) =>
              (result'[t] = "AlreadyActive" /\ live'[t] = live[t])]_vars

\* C3: while a thread holds a live AmxCtx the coprocessor is enabled on that
\* thread: the latest enable/disable instruction it emitted is `set`.
C3_LiveCtxImpliesEnabled == \A t \in Threads : live[t] > 0 => AmxEnabled(t)

\* C4: CTX_ACTIVE of a thread is true exactly while a context is live on it.
C4_FlagIffLive == \A t \in Threads : CTX_ACTIVE[t] <=> (live[t] > 0)

\* C5: the AmxCtx::new that follows the drop of a thread's context succeeds,
\* however many activate/release cycles came before.
C5_NewAfterDropSucceeds ==
    [][\A t \in Threads :
          (New(t) /\ emitted[t] # <<>> /\ emitted[t][Len(emitted[t])] = clr) =>
              (result'[t] = "Ok" /\ live'[t] = live[t] + 1)]_vars

\* C5 witness: a thread is in its third activation, each earlier one released.
C5_Witness ==
    \E t \in Threads :
        /\ emitted[t] = <<set, clr, set, clr, set>>
        /\ result[t] = "Ok"
        /\ live[t] = 1

\* C7: on every thread the number of `set` emitted equals the number of
\* `clr` emitted plus the number of live contexts, and the flag is false
\* once every context is released.
C7_SetClrBalance ==
    \A t \in Threads :
        /\ NumEmitted(t, set) = NumEmitted(t, clr) + live[t]
        /\ (live[t] = 0 => ~CTX_ACTIVE[t])

\* C7 witness: a thread that activated twice and released once.
C7_Witness ==
    \E t \in Threads :
        /\ NumEmitted(t, set) = 2
        /\ NumEmitted(t, clr) = 1
        /\ live[t] = 1

\* C8: a thread's first AmxCtx::new succeeds whatever the other threads did,
\* and a new or drop of one thread never changes another thread's flag.
C8_PerThreadActivation ==
    [][\A t \in Threads :
          /\ (New(t) /\ emitted[t] = <<>>) => result'[t] = "Ok"
          /\ (New(t) \/ Drop(t)) =>
                 \A u \in Threads \ {t} : CTX_ACTIVE'[u] = CTX_ACTIVE[u]]_vars

\* C8 witness: every thread holds a context from its one call of AmxCtx::new.
C8_Witness ==
    \A t \in Threads :
        /\ emitted[t] = <<set>>
        /\ result[t] = "Ok"
        /\ live[t] = 1

(***************************************************************************)
(* The load/store operand word (spec 4.1)                                  *)
(***************************************************************************)

\* The size bit the spec assigns to a transfer of `bytes` bytes.
SizeBit(bytes) == IF bytes = 128 THEN 1 ELSE 0

\* C9: the pointer-free operand word of MemArgs::encode holds reg_offset in
\* bits [56,62) and the size (0 for 64 bytes, 1 for 128 bytes) in bit 62, and
\* all of its other bits, 0..55 and 63, are zero.
C9_MemArgsWord ==
    (lsCall.api = "LoadStore" /\ rawOp.name # "none") =>
        /\ Field(rawOp.x, 56, 6) = lsCall.index
        /\ rawOp.x[62] = SizeBit(lsCall.bytes)
        /\ \A i \in (0..55) \cup {63} : rawOp.x[i] = 0

\* C9 witness: a 128-byte transfer of the last Z row was encoded.
C9_Witness ==
    /\ lsCall.api = "LoadStore"
    /\ rawOp.name = "stz"
    /\ lsCall.index = 63
    /\ lsCall.bytes = 128
    /\ \A i \in 56..62 : rawOp.x[i] = 1

\* C10: on the hardware path the operand given to the instruction has the
\* pointer's low 56 bits in bits [0,56) and the encoded word's bits in
\* [56,64): whatever the pointer's top byte, reg_offset and size are intact.
C10_HwOperand ==
    rawOp.name # "none" =>
        /\ \A i \in 0..55 : hwOperand.operand[i] = lsCall.ptr[i]
        /\ \A i \in 56..63 : hwOperand.operand[i] = rawOp.x[i]
        /\ lsCall.index < 64 =>
               /\ Field(hwOperand.operand, 56, 6) = lsCall.index
               /\ hwOperand.operand[62] = SizeBit(lsCall.bytes)
               /\ hwOperand.operand[63] = 0

\* C10 witness: a load of X row 0 through a pointer whose top byte is 0xff.
C10_Witness ==
    /\ lsCall.api = "LoadStore"
    /\ rawOp.name = "ldx"
    /\ lsCall.index = 0
    /\ \A i \in BitPos : lsCall.ptr[i] = 1
    /\ \A i \in 56..63 : hwOperand.operand[i] = 0
    /\ \A i \in 0..55 : hwOperand.operand[i] = 1

(***************************************************************************)
(* The outer-product operand word (spec 4.1)                               *)
(***************************************************************************)

\* Whether the arguments of the latest outer product were all in range.
MacArgsInRange ==
    arg.x_offset_bytes < 512 /\ arg.y_offset_bytes < 512 /\ arg.z_index < 64

\* C11: for in-range arguments the mac16 word holds y_offset in bits [0,10),
\* x_offset in [10,20), z_index in [20,27), ignore_x in bit 28, ignore_y in
\* bit 29 and zeros from bit 30 up, so every argument can be read back.
C11_Mac16Fields ==
    (rawOp.name = "mac16" /\ MacArgsInRange) =>
        /\ Field(rawOp.x, 0, 10) = arg.y_offset_bytes
        /\ Field(rawOp.x, 10, 10) = arg.x_offset_bytes
        /\ Field(rawOp.x, 20, 7) = arg.z_index
        /\ rawOp.x[28] = BoolToInt(arg.ignore_x)
        /\ rawOp.x[29] = BoolToInt(arg.ignore_y)
        /\ \A i \in 30..63 : rawOp.x[i] = 0

\* C11 witness: the largest offsets and Z index, ignore_x set, ignore_y clear.
C11_Witness ==
    /\ rawOp.name = "mac16"
    /\ arg.x_offset_bytes = 511
    /\ arg.y_offset_bytes = 511
    /\ arg.z_index = 63
    /\ arg.ignore_x /\ ~arg.ignore_y
    /\ rawOp.x[28] = 1 /\ rawOp.x[29] = 0
    /\ \A i \in 0..8 : rawOp.x[i] = 1 /\ rawOp.x[10 + i] = 1

\* C12: bit 27 of the mac16 word is 1 exactly when accumulate is false.
C12_AccumulateInverted ==
    (rawOp.name = "mac16" /\ MacArgsInRange) => (rawOp.x[27] = 1 <=> ~arg.accumulate)

\* C12 witness: an accumulating outer product was encoded with bit 27 clear.
C12_Witness ==
    /\ rawOp.name = "mac16"
    /\ arg.accumulate
    /\ rawOp.x[27] = 0
    /\ MacArgsInRange

(***************************************************************************)
(* The lookup-table operand word (spec 4.1, 4.5)                           *)
(***************************************************************************)

\* Whether the arguments of the latest lut were all in range.
LutArgsInRange ==
    /\ arg.input.offset < 512
    /\ arg.output.n < RowLimit(arg.output.file)
    /\ arg.table_row < 8

\* The values or-ed into the word of the latest lut, one per field.
LutFieldWords ==
    << LutInOffset(arg.input), LutInFlag(arg.input),
       LutOutRow(arg.output), LutOutFlag(arg.output),
       Shl(ToU64(genlut_mode(arg.mode)), 53), Shl(ToU64(arg.table_row), 60) >>

\* No bit is set by two different fields of the latest lut.
NoSharedBit ==
    \A j, k \in 1..Len(LutFieldWords) :
        j # k => \A i \in BitPos : ~(LutFieldWords[j][i] = 1 /\ LutFieldWords[k][i] = 1)

\* C13 as stated: no bit of the genlut word is set by two fields, and the
\* output-in-Y discriminator (bit 25) is outside the output row field, so
\* it is set exactly when the output is a YRow.
C13_DiscriminatorOutsideRow ==
    (rawOp.name = "genlut" /\ LutArgsInRange) =>
        /\ NoSharedBit
        /\ (rawOp.x[25] = 1 <=> arg.output.file = "Y")

\* C13 as amended: no bit of the genlut word is set by two fields of the
\* same word; bit 26 is set exactly for a ZRow output; with bit 26 clear,
\* bit 25 is set exactly for a YRow output and the row index lies in
\* [20,23); for a ZRow output bit 25 is the top bit of the row index.
C13_FieldsDecodable ==
    (rawOp.name = "genlut" /\ LutArgsInRange) =>
        /\ NoSharedBit
        /\ (rawOp.x[26] = 1 <=> arg.output.file = "Z")
        /\ rawOp.x[26] = 0 =>
               /\ (rawOp.x[25] = 1 <=> arg.output.file = "Y")
               /\ Field(rawOp.x, 20, 3) = arg.output.n
               /\ rawOp.x[23] = 0 /\ rawOp.x[24] = 0
        /\ rawOp.x[26] = 1 =>
               /\ Field(rawOp.x, 20, 6) = arg.output.n
               /\ (rawOp.x[25] = 1 <=> arg.output.n >= 32)

\* C13 witness: the word of an output to ZRow(32) has bits 25 and 26 set.
C13_Witness ==
    /\ rawOp.name = "genlut"
    /\ LutArgsInRange
    /\ arg.output = [file |-> "Z", n |-> 32]
    /\ rawOp.x[25] = 1
    /\ rawOp.x[26] = 1

\* C14: for in-range arguments the genlut word holds the input offset in
\* bits [0,10), the input-in-Y flag in bit 10, the output row index from bit
\* 20, the output-in-Z flag in bit 26, the mode code in [53,57) and the table
\* row in [60,64); all bits outside these fields and bit 25 are zero.
C14_LutFields ==
    (rawOp.name = "genlut" /\ LutArgsInRange) =>
        /\ Field(rawOp.x, 0, 10) = arg.input.offset
        /\ (rawOp.x[10] = 1 <=> arg.input.file = "Y")
        /\ Field(rawOp.x, 20, IF arg.output.file = "Z" THEN 6 ELSE 3) = arg.output.n
        /\ (rawOp.x[26] = 1 <=> arg.output.file = "Z")
        /\ Field(rawOp.x, 53, 4) = genlut_mode(arg.mode)
        /\ Field(rawOp.x, 60, 4) = arg.table_row
        /\ \A i \in (11..19) \cup (27..52) \cup (57..59) : rawOp.x[i] = 0
        /\ arg.output.file # "Z" => (rawOp.x[23] = 0 /\ rawOp.x[24] = 0)

\* C14 witness: indices at Y byte 511, table row 7, output YRow(7), mode 15.
C14_Witness ==
    /\ rawOp.name = "genlut"
    /\ arg.input = [file |-> "Y", offset |-> 511]
    /\ arg.table_row = 7
    /\ arg.output = [file |-> "Y", n |-> 7]
    /\ arg.mode = <<"Normal", "Index5", "X8">>
    /\ \A i \in (0..8) \cup {10, 20, 21, 22, 25} \cup (53..56) \cup (60..62) :
           rawOp.x[i] = 1

\* C15: there are exactly 16 mode tags, their codes are pairwise distinct
\* and are exactly 0..15, (Normal, Index4, X8) has code 13, and the mode
\* field of a genlut word names the tag lut was called with and no other.
C15_ModeCodes ==
    /\ Cardinality(LutTys) = 16
    /\ \A m1, m2 \in LutTys : m1 # m2 => genlut_mode(m1) # genlut_mode(m2)
    /\ {genlut_mode(m) : m \in LutTys} = 0..15
    /\ genlut_mode(<<"Normal", "Index4", "X8">>) = 13
    /\ (rawOp.name = "genlut" /\ LutArgsInRange) =>
           {m \in LutTys : genlut_mode(m) = Field(rawOp.x, 53, 4)} = {arg.mode}

\* C15 witness: a lookup in mode (Normal, Index4, X8) carries 13 in [53,57).
C15_Witness ==
    /\ rawOp.name = "genlut"
    /\ LutArgsInRange
    /\ arg.mode = <<"Normal", "Index4", "X8">>
    /\ Field(rawOp.x, 53, 4) = 13

(***************************************************************************)
(* The instruction word of op_in (spec 4.1)                                *)
(***************************************************************************)

\* C16: for every register x<r>, r in 0..32, the word op_in assembles is
\* 0x00201000 + (op << 5) + r: the digits of r read as a hexadecimal
\* literal h give back r as (h & 0xf) + (h >> 4) * 10.
C16_RegisterRecovered ==
    insn # NoInsn =>
        /\ insn.reg \in 0..31
        /\ LET h == (16 * (insn.reg \div 10)) + (insn.reg % 10) IN
               /\ RegNameAsHex(insn.reg) = h
               /\ (h % 16) + ((h \div 16) * 10) = insn.reg
        /\ insn.word = AmxBase + (insn.op * 32) + insn.reg
        /\ insn.word % 32 = insn.reg

\* C16 witness: register x25, read as 0x25 = 37, is encoded as 25.
C16_Witness ==
    /\ insn.reg = 25
    /\ RegNameAsHex(insn.reg) = 37
    /\ insn.op = Opcode("genlut")
    /\ insn.word = AmxBase + (22 * 32) + 25

(***************************************************************************)
(* The register files (spec 4.4, 8)                                        *)
(***************************************************************************)

\* The step is a call of Amx::read_x, read_y or read_z.
ReadStep == callsLeft' = callsLeft - 1 /\ lsCall'.method = "read"

\* C17: read_x, read_y and read_z issue one 64-byte store per row, in
\* ascending row order (8, 8, 64 stores); row i goes to bytes [64i, 64i+64)
\* of the buffer; the ranges written are disjoint (together they are as many
\* bytes as the stores write) and cover the buffer, which then holds the
\* register file; the register files are not modified.
C17_ReadStores ==
    [][ReadStep =>
        \A f \in {lsCall'.file} : \A n \in {NumRows(lsCall'.file)} :
        \A base \in {Addr(lsCall'.ptr)} :
        \A first \in {{<<i, Addr(issued'[i].operand)>> : i \in 1..Len(issued')}} :
        \A all \in {UNION {{AddrAdd(p[2], k) : k \in 0..63} : p \in first}} :
            /\ Len(issued') = n
            /\ \A i \in 1..n :
                   /\ issued'[i].op = Opcode(StoreName(f))
                   /\ HwRow(issued'[i].operand) = i - 1
                   /\ ~HwPair(issued'[i].operand)
                   /\ issued'[i].operand[63] = 0
            /\ \A p \in first : p[2] = AddrAdd(base, 64 * (p[1] - 1))
            /\ Cardinality(all) = 64 * n
            /\ all = {AddrAdd(base, k) : k \in 0..((64 * n) - 1)}
            /\ Len(mem') = Len(mem) + n
            /\ \A i \in 1..n :
                   mem'[Len(mem) + i] = [base |-> AddrAdd(base, 64 * (i - 1)),
                                         len |-> 64, bytes |-> regs[f][i - 1]]
            /\ \A i \in 0..(n - 1) :
                   \A row \in {Near(mem', AddrAdd(base, 64 * i), 64)} :
                       \A k \in 0..63 :
                           MemAt(row, AddrAdd(base, (64 * i) + k)) = regs[f][i][k]
            /\ regs' = regs
            /\ havoc' = havoc]_vars

\* C17 witness: read_z of a z that a load changed filled a 4096-byte buffer.
C17_Witness ==
    /\ lsCall.method = "read"
    /\ lsCall.file = "Z"
    /\ Len(issued) = 64
    /\ regs["Z"] # UsedRegs["Z"]
    /\ Cardinality(Stored(mem)) = 4096
    /\ \A k \in 0..4095 :
           MemAt(mem, AddrAdd(Addr(lsCall.ptr), k)) = regs["Z"][k \div 64][k % 64]

\* The store method that matches each load method.
MatchingStore(method) ==
    CASE method = "load512" -> "store512"
      [] method = "load1024_aligned" -> "store1024_aligned"
      [] method = "load512_z_interleaved" -> "store512_z_interleaved"

LoadMethods == {"load512", "load1024_aligned", "load512_z_interleaved"}

\* A call the contract allows: the row exists in its file.
LegalRow(call) == call.index < NumRows(call.file)

\* The step stores what the previous call loaded: same file, row and size.
RoundTripStep ==
    /\ lsCall.method \in LoadMethods
    /\ ~panicked
    /\ LegalRow(lsCall)
    /\ havoc = {}
    /\ callsLeft' = callsLeft - 1
    /\ lsCall'.method = MatchingStore(lsCall.method)
    /\ lsCall'.file = lsCall.file
    /\ lsCall'.index = lsCall.index
    /\ ~panicked'

\* The first and last byte of every store memory m holds.
StoreEnds(m) == UNION {{m[i].base, AddrAdd(m[i].base, m[i].len - 1)} : i \in 1..Len(m)}

\* C18: a load followed by the matching store of the same row and size
\* writes the first `size` bytes of the source to the destination and
\* changes no other byte of memory: the store is the only one the step
\* makes, it starts at the destination and is `size` bytes long, and the
\* bytes next to the destination and at both ends of every earlier store
\* read as before.
C18_RoundTrip ==
    [][RoundTripStep =>
        \A src \in {Addr(lsCall.ptr)} : \A dst \in {Addr(lsCall'.ptr)} :
        \A size \in {lsCall.bytes} :
        \A range \in {{AddrAdd(Addr(lsCall'.ptr), k) : k \in 0..(lsCall.bytes - 1)}} :
        \A source \in {Near(mem, Addr(lsCall.ptr), lsCall.bytes)} :
        \A dest \in {Near(mem', Addr(lsCall'.ptr), lsCall.bytes)} :
            /\ lsCall'.bytes = size
            /\ \A k \in 0..(size - 1) :
                   MemAt(dest, AddrAdd(dst, k)) = MemAt(source, AddrAdd(src, k))
            /\ Len(mem') = Len(mem) + 1
            /\ SubSeq(mem', 1, Len(mem)) = mem
            /\ mem'[Len(mem')].base = dst
            /\ mem'[Len(mem')].len = size
            /\ \A a \in (StoreEnds(mem) \cup {AddrAdd(dst, -1), AddrAdd(dst, size)}) \ range :
                   MemAt(mem', a) = MemAt(mem, a)
            /\ havoc' = {}]_vars

\* C18 witness: the interleaved store of z row 63 put the 64 source bytes,
\* which no register held at the start, into the other buffer.
C18_Witness ==
    /\ lsCall.method = "store512_z_interleaved"
    /\ lsCall.index = 63
    /\ ~panicked
    /\ Addr(lsCall.ptr) # Addr(arg.ptr)
    /\ \A k \in 0..63 :
           MemAt(mem, AddrAdd(Addr(lsCall.ptr), k)) = MemInit(AddrAdd(Addr(arg.ptr), k))

\* The step is a non-interleaved load of a row that exists.
PlainLoadStep ==
    /\ callsLeft' = callsLeft - 1
    /\ lsCall'.method \in {"load512", "load1024_aligned"}
    /\ ~panicked'
    /\ LegalRow(lsCall')
    /\ havoc = {}

\* C19: a non-interleaved 64-byte load changes only row `index` of its
\* file, a 128-byte load only rows index and (index + 1) mod row_count;
\* those rows receive the source bytes, and every other row of the file and
\* the two other files stay as they were.
C19_LoadFrame ==
    [][PlainLoadStep =>
        \A f \in {lsCall'.file} : \A n \in {NumRows(lsCall'.file)} :
        \A row \in {lsCall'.index} : \A src \in {Addr(lsCall'.ptr)} :
        \A rows \in {IF lsCall'.bytes = 128
                      THEN {lsCall'.index, (lsCall'.index + 1) % NumRows(lsCall'.file)}
                      ELSE {lsCall'.index}} :
        \A source \in {Near(mem, Addr(lsCall'.ptr), lsCall'.bytes)} :
            /\ \A k \in 0..63 : regs'[f][row][k] = MemAt(source, AddrAdd(src, k))
            /\ lsCall'.bytes = 128 =>
                   \A k \in 0..63 :
                       regs'[f][(row + 1) % n][k] = MemAt(source, AddrAdd(src, 64 + k))
            /\ \A i \in 0..(n - 1) : i \notin rows => regs'[f][i] = regs[f][i]
            /\ \A g \in Files \ {f} : regs'[g] = regs[g]
            /\ mem' = mem
            /\ havoc' = {}]_vars

\* C19 witness: a 128-byte load into x row 7 filled rows 7 and 0 and left
\* row 1 as it was at the start.
C19_Witness ==
    /\ lsCall.method = "load1024_aligned"
    /\ lsCall.file = "X"
    /\ lsCall.index = 7
    /\ ~panicked
    /\ callsLeft = MaxCalls - 1
    /\ \A k \in 0..63 :
           /\ regs["X"][7][k] = MemInit(AddrAdd(Addr(lsCall.ptr), k))
           /\ regs["X"][0][k] = MemInit(AddrAdd(Addr(lsCall.ptr), 64 + k))
    /\ regs["X"][1] = UsedRegs["X"][1]

\* The step is an interleaved load into a row of z.
InterleavedLoadStep ==
    /\ callsLeft' = callsLeft - 1
    /\ lsCall'.method = "load512_z_interleaved"
    /\ ~panicked'
    /\ LegalRow(lsCall')
    /\ havoc = {}

\* C20: an interleaved load into ZRow(r) writes the low 4-byte half of each
\* of the eight 8-byte source lanes, in lane order, to bytes
\* [32 (r mod 2), 32 (r mod 2) + 32) of z row 2 (r div 2), and the high halves
\* to the same bytes of row 2 (r div 2) + 1; no other byte of z changes.
C20_InterleavedLoad ==
    [][InterleavedLoadStep =>
        \A r \in {lsCall'.index} : \A src \in {Addr(lsCall'.ptr)} :
        \A lowRow \in {2 * (lsCall'.index \div 2)} :
        \A first \in {32 * (lsCall'.index % 2)} :
        \A source \in {Near(mem, Addr(lsCall'.ptr), 64)} :
            /\ \A lane \in 0..7 : \A b \in 0..3 :
                   /\ regs'["Z"][lowRow][first + (4 * lane) + b]
                          = MemAt(source, AddrAdd(src, (8 * lane) + b))
                   /\ regs'["Z"][lowRow + 1][first + (4 * lane) + b]
                          = MemAt(source, AddrAdd(src, (8 * lane) + 4 + b))
            /\ \A i \in 0..63 :
                   IF i \in {lowRow, lowRow + 1}
                   THEN \A k \in (0..63) \ (first..(first + 31)) :
                            regs'["Z"][i][k] = regs["Z"][i][k]
                   ELSE regs'["Z"][i] = regs["Z"][i]
            /\ havoc' = {}]_vars

\* C20 witness: an interleaved load into ZRow(63) put the low half of source
\* lane 7 at bytes 60..63 of row 62 and its high half at bytes 60..63 of row
\* 63, and left byte 31 of both rows as it was at the start.
C20_Witness ==
    /\ lsCall.method = "load512_z_interleaved"
    /\ lsCall.index = 63
    /\ ~panicked
    /\ callsLeft = MaxCalls - 1
    /\ \A b \in 0..3 :
           /\ regs["Z"][62][60 + b] = MemInit(AddrAdd(Addr(lsCall.ptr), 56 + b))
           /\ regs["Z"][63][60 + b] = MemInit(AddrAdd(Addr(lsCall.ptr), 60 + b))
    /\ regs["Z"][62][31] = UsedRegs["Z"][62][31]
    /\ regs["Z"][63][31] = UsedRegs["Z"][63][31]

(***************************************************************************)
(* The outer product on the register files (spec 4.5, 8)                   *)
(***************************************************************************)

\* The step is an outer product with in-range arguments on known registers.
ProdStep ==
    /\ rawOp'.name = "mac16"
    /\ ~panicked'
    /\ MacArgsInRange
    /\ havoc = {}

\* The call asks for plain products: no accumulation, no ignored input.
PlainProduct == ~arg.accumulate /\ ~arg.ignore_x /\ ~arg.ignore_y

\* The marker of the rows of z that have the parity of n.
ZHalf(n) == IF n % 2 = 0 THEN "Z0" ELSE "Z1"

\* C21: outer_product_i16_xy_to_z writes only rows of z of the parity of
\* z_index: every row of the other parity, and x and y, stay as they were
\* and stay known; and the call has the effect of the same call with
\* z_index mod 2 in place of z_index.
C21_EverySecondRow ==
    [][ProdStep =>
        \A low \in {Mac16Word(arg.x_offset_bytes, arg.y_offset_bytes, arg.z_index % 2,
                               arg.accumulate, arg.ignore_x, arg.ignore_y)} :
            /\ \A row \in 0..63 :
                   row % 2 # arg.z_index % 2 => regs'["Z"][row] = regs["Z"][row]
            /\ regs'["X"] = regs["X"]
            /\ regs'["Y"] = regs["Y"]
            /\ havoc' \subseteq {ZHalf(arg.z_index)}
            /\ IF PlainProduct
               THEN regs' = MacRows(regs, low) /\ havoc' = {}
               ELSE regs' = regs /\ havoc' = {ZHalf(arg.z_index % 2)}]_vars

\* C21 witness: a plain product into ZRow(50) changed row 0 and row 62 and
\* left rows 1 and 63 as they were at the start.
C21_Witness ==
    /\ rawOp.name = "mac16"
    /\ ~panicked
    /\ arg.z_index = 50
    /\ PlainProduct
    /\ havoc = {}
    /\ regs["Z"][0] # UsedRegs["Z"][0]
    /\ regs["Z"][62] # UsedRegs["Z"][62]
    /\ regs["Z"][1] = UsedRegs["Z"][1]
    /\ regs["Z"][63] = UsedRegs["Z"][63]

\* The 16-bit little-endian value at byte offset b of file f, wrapping at
\* 512 bytes, in the register files r.
Lane16(r, f, b) ==
    r[f][(b % 512) \div 64][b % 64] + (256 * r[f][((b + 1) % 512) \div 64][(b + 1) % 64])

\* C22: with accumulate = false and neither input ignored, for all i, j in
\* 0..32 the 16-bit element at column i of z row (z_index mod 2) + 2 j is
\* x[i] * y[j] modulo 2^16, whatever the row held before, where x[i] and
\* y[j] are the 16-bit little-endian values of x and y at byte offsets
\* x_offset + 2 i and y_offset + 2 j, wrapping modulo 512.
C22_Products ==
    [][(ProdStep /\ PlainProduct) =>
        \A xs \in {{<<i, Lane16(regs, "X", arg.x_offset_bytes + (2 * i))>> : i \in 0..31}} :
        \A ys \in {{<<j, Lane16(regs, "Y", arg.y_offset_bytes + (2 * j))>> : j \in 0..31}} :
            \A x \in xs : \A y \in ys :
                \A row \in {regs'["Z"][(arg.z_index % 2) + (2 * y[1])]} :
                    row[2 * x[1]] + (256 * row[(2 * x[1]) + 1]) = Mul16(x[2], y[2])]_vars

\* C22 witness: x lanes read from byte 511 on (lane 0 is bytes 511 and 0 of
\* x), y lanes from byte 470 on; element 0 of z row 1 is their product, which
\* is not what the row held at the start.
C22_Witness ==
    /\ rawOp.name = "mac16"
    /\ ~panicked
    /\ PlainProduct
    /\ arg.x_offset_bytes = 511
    /\ arg.y_offset_bytes = 470
    /\ arg.z_index = 63
    /\ regs["Z"][1][0] + (256 * regs["Z"][1][1])
           = Mul16(UsedRegs["X"][7][63] + (256 * UsedRegs["X"][0][0]),
                   UsedRegs["Y"][7][22] + (256 * UsedRegs["Y"][7][23]))
    /\ regs["Z"][1][0] # UsedRegs["Z"][1][0]

\* C23: lut in mode (Normal, Index4, X8), with the value table in a row of x
\* and 4-bit indices at a byte offset of x or y whose window does not overlap
\* the table row, leaves in byte i of the output row
\* values[(indices[i div 2] >> (4 * (i mod 2))) & 0xf], for i in 0..63.
TableLookup ==
    /\ arg.mode = <<"Normal", "Index4", "X8">>
    /\ ~LutOverlap(arg.input.offset, arg.table_row)

RowOutOfRange(call) ==
    \/ call.file \in {"X", "Y"} /\ call.index >= 8
    \/ call.file = "Z" /\ call.index >= 64

DispatchName(call) ==
    CASE call.method \in {"load512", "load1024_aligned"} ->
            (CASE call.file = "X" -> "ldx" [] call.file = "Y" -> "ldy" [] call.file = "Z" -> "ldz")
      [] call.method \in {"store512", "store1024_aligned"} ->
            (CASE call.file = "X" -> "stx" [] call.file = "Y" -> "sty" [] call.file = "Z" -> "stz")
      [] call.method = "load512_z_interleaved" -> "ldzi"
      [] call.method = "store512_z_interleaved" -> "stzi"

C27_Dispatch ==
    (lsCall.api = "LoadStore" /\ ~panicked) =>
        /\ rawOp.name = DispatchName(lsCall)
        /\ (lsCall.method \in {"load512", "load1024_aligned", "load512_z_interleaved"}
               => rawOp.name \in {"ldx", "ldy", "ldz", "ldzi"})
        /\ (lsCall.method \in {"store512", "store1024_aligned", "store512_z_interleaved"}
               => rawOp.name \in {"stx", "sty", "stz", "stzi"})
        /\ rawOp.x[62] = (IF lsCall.bytes = 128 THEN 1 ELSE 0)
        /\ Field(rawOp.x, 56, 6) = lsCall.index
        /\ rawOp.ptr = lsCall.ptr

\* load1024_aligned on XRow(7) went to ldx with the size bit set and a
\* pointer whose top byte is not clear.
C27_Witness ==
    /\ lsCall.api = "LoadStore"
    /\ lsCall.method = "load1024_aligned"
    /\ lsCall.file = "X"
    /\ lsCall.index = 7
    /\ Field(lsCall.ptr, 56, 8) = 255
    /\ ~panicked
    /\ rawOp.name = "ldx"
    /\ rawOp.x[62] = 1
    /\ rawOp.ptr = lsCall.ptr

\* C25: an operation run on AmxEmuCtx, whose files start all-zero, returns
\* and leaves the register files the hardware leaves for the same operand
\* word and the same starting contents; stated here for the three row loads,
\* whose effect on the hardware is known.
C25_EmuMatchesHardware ==
    [][lsCall'.api = "AmxEmuCtx" =>
        /\ ~panicked'
        /\ \A operand \in {NativeOperand(rawOp'.x, rawOp'.ptr)} :
              (/\ rawOp'.name \in {"ldx", "ldy", "ldz"}
               /\ ~(HwPair(operand) /\ ~Aligned128(Addr(operand))))
                  => regs' = LoadRows(regs, mem, FileOf(rawOp'.name), operand)]_vars

\* C26: every operation emits the word 0x00201000 + (op << 5) + operand with
\* its own opcode (ldx 0 .. genlut 22 without 17; set and clr are opcode 17
\* with immediates 0 and 1).  For a register in 0..31 the operand does not
\* carry into the opcode field, distinct (operation, register) pairs give
\* distinct words, and set and clr differ from each other and from every
\* instruction that takes an operand.
OpcodeTable ==
    <<"ldx", "ldy", "stx", "sty", "ldz", "stz", "ldzi", "stzi", "extrx", "extry",
      "fma64", "fms64", "fma32", "fms32", "mac16", "fma16", "fms16", "set/clr",
      "vecint", "vecfp", "matint", "matfp", "genlut">>

C26_DistinctWords ==
    /\ \A n \in 1..Len(OpcodeTable) :
          OpcodeTable[n] # "set/clr" => Opcode(OpcodeTable[n]) = n - 1 /\ (n - 1) \in InOps
    /\ \A op \in InOps : \E n \in 1..Len(OpcodeTable) : op = n - 1 /\ OpcodeTable[n] # "set/clr"
    /\ set = 2101248 + (17 * 32) + 0
    /\ clr = 2101248 + (17 * 32) + 1
    /\ set # clr
    /\ insn # NoInsn =>
          /\ insn.word = 2101248 + (insn.op * 32) + insn.reg
          /\ (insn.word - 2101248) \div 32 = insn.op
          /\ insn.word % 32 = insn.reg
          /\ insn.word \notin {set, clr}
          /\ \A op \in InOps : \A r \in XRegs :
                OpInWord(op, r) = insn.word => (op = insn.op /\ r = insn.reg)

\* fms16 on register x31 was emitted: the word is the last one before set.
C26_Witness ==
    /\ insn.op = 16
    /\ insn.reg = 31
    /\ insn.word = set - 1

C29_NeverUnsupported ==
    [][\A t \in Threads :
          /\ result'[t] # "Unsupported"
          /\ New(t) =>
                /\ result'[t] \in {"Ok", "AlreadyActive"}
                /\ (~CTX_ACTIVE[t] =>
                       result'[t] = "Ok" /\ emitted'[t] = Append(emitted[t], set))]_vars

\* Both threads hold a context from their first call of new.
C29_Witness ==
    \A t \in Threads :
        /\ emitted[t] = <<set>>
        /\ result[t] = "Ok"
        /\ live[t] = 1

====
